---- MODULE Spec2Model ----
(***************************************************************************)
(* Model of src/observable.go: the key-addressable observer registry       *)
(* ConcurrentObservable with its operations Observe and Notify.            *)
(*                                                                         *)
(* Both methods have VALUE receivers (lines 55, 64), so every call works   *)
(* on a copy l of the registry struct: the two locks are copied by value,  *)
(* the map header is copied too but still refers to the one shared map.    *)
(* The range variable `observer` of Notify (line 67) is captured by the    *)
(* closure of line 69; with one variable per loop (Go before 1.22) the     *)
(* delivery task reads whatever the variable holds when it runs.  The      *)
(* behaviours of one variable per iteration (Go 1.22 and later) are those  *)
(* in which every task reads the variable before the loop moves on, so     *)
(* they are among the behaviours of this model.                            *)
(***************************************************************************)
EXTENDS Integers, Sequences, FiniteSets, TLC

\* ------------------------------------------------------------------ bounds
NumProcs == 2      \* concurrent caller threads
MaxObserve == 2    \* Observe calls made in one run
MaxNotify == 2     \* Notify calls made in one run

Procs == 1..NumProcs

\* -------------------------------------------------------------------- keys
\* PlainKey boxes a plain string (lines 32-34, 42-44).
NewPlainKey(s) == [type |-> "PlainKey", Text |-> s]

\* Key is any fmt.Stringer (line 29).  IntKey stands for a caller's own key
\* type of another underlying type, rendered in decimal.
IntKey(n) == [type |-> "IntKey", N |-> n]

DecimalDigits == <<"0", "1", "2", "3", "4", "5", "6", "7", "8", "9">>

\* k.String(): PlainKey renders its Text unchanged (lines 37-39); IntKey
\* renders its number.
String(key) ==
    IF key.type = "PlainKey" THEN key.Text ELSE DecimalDigits[key.N + 1]

\* The keys callers pass: two of different types with the same rendering,
\* and one with another rendering.
Keys == {NewPlainKey("1"), IntKey(1), NewPlainKey("2")}

NoKey == [type |-> "none"]
NoChan == 0

\* ------------------------------------------------------------------- state
VARIABLES
    DataLock,      \* the registry's sync.RWMutex (line 23): whether a writer
                   \* holds it, and how many readers do
    held,          \* what each embedding caller holds of DataLock
    ObserverLock,  \* the registry's own sync.Mutex (line 24): TRUE = locked
    observers,     \* the shared map: key text -> sequence of channels (line 18)
    nextChan,      \* channels allocated so far by make(chan bool), plus one
    pc,            \* each caller thread's position
    k,             \* the call's argument k
    l,             \* the call's receiver copy: the state of l.ObserverLock
    observer,      \* Observe's local `observer` (line 58)
    slice,         \* Observe's read of l.observers[key] (line 60, right side)
    call,          \* Notify: the index of this call in notifyCalls
    i,             \* Notify: the range loop's position (line 67)
    notifyCalls,   \* one record per Notify call that reached its loop: the
                   \* ranged-over slice and the loop variable `observer`
    sends,         \* the delivery tasks spawned at line 69
    returned,      \* what Observe calls have returned, in order of return:
                   \* the channel, and the key it was asked for
    crashed,       \* the runtime has aborted the program (fatal error)
    before         \* history, kept under OrderSpec only: the channels Observe
                   \* had returned when the thread's Notify call was invoked

vars == <<DataLock, held, ObserverLock, observers, nextChan, pc, k, l, observer,
          slice, call, i, notifyCalls, sends, returned, crashed, before>>

ObservePcs == {"o_lock", "o_read", "o_store", "o_ret"}
NotifyPcs == {"n_lock", "n_range", "n_iter", "n_go", "n_ret"}

\* make(observers) (line 80): the empty map.
EmptyMap == [t \in {} |-> <<>>]

\* (Mutant of Lookup: the read ignores the key and yields some entry.)
LookupAny(m, t) ==
    IF DOMAIN m = {} THEN <<>> ELSE m[CHOOSE x \in DOMAIN m : TRUE]

\* A read m[t] of a Go map: the zero value (nil slice) for an absent key,
\* and the map is left as it is.
Lookup(m, t) == IF t \in DOMAIN m THEN m[t] ELSE <<>>

\* An assignment m[t] = s of a Go map.
Assign(m, t, s) == [x \in DOMAIN m \cup {t} |-> IF x = t THEN s ELSE m[x]]

\* (Mutant of MakeChan: the allocator hands out the latest channel again.)
MakeChanReused == IF nextChan > 1 THEN nextChan - 1 ELSE nextChan

\* make(chan bool) (line 58): a fresh channel.
MakeChan == nextChan

\* The channels subscribers hold: those Observe has returned (line 61).
Returned == {returned[n].ch : n \in 1..Len(returned)}

\* NewConcurrentObservable (lines 76-82).
Init ==
    /\ ObserverLock = FALSE
    /\ observers = EmptyMap
    /\ nextChan = 1
    /\ pc = [p \in Procs |-> "idle"]
    /\ k = [p \in Procs |-> NoKey]
    /\ l = [p \in Procs |-> FALSE]
    /\ observer = [p \in Procs |-> NoChan]
    /\ slice = [p \in Procs |-> <<>>]
    /\ call = [p \in Procs |-> 0]
    /\ i = [p \in Procs |-> 0]
    /\ notifyCalls = <<>>
    /\ sends = {}
    /\ returned = <<>>
    /\ crashed = FALSE
    /\ before = [p \in Procs |-> {}]
    /\ DataLock = [w |-> FALSE, r |-> 0]
    /\ held = [p \in Procs |-> "none"]

\* Observe calls invoked so far: every one allocates one channel, except
\* those that have not reached line 58 yet.
ObserveCalls == (nextChan - 1) + Cardinality({p \in Procs : pc[p] = "o_lock"})

\* Notify calls invoked so far.
NotifyCalls ==
    Len(notifyCalls) + Cardinality({p \in Procs : pc[p] \in {"n_lock", "n_range"}})

\* ----------------------------------------------------------------- Observe
\* A thread calls Observe(key) (line 55): the receiver is copied into l,
\* the lock in its current state with it.
ObserveCall(p, key) ==
    /\ ~crashed
    /\ pc[p] = "idle"
    /\ ObserveCalls < MaxObserve
    /\ pc' = [pc EXCEPT ![p] = "o_lock"]
    /\ k' = [k EXCEPT ![p] = key]
    /\ l' = [l EXCEPT ![p] = ObserverLock]
    /\ UNCHANGED <<ObserverLock, observers, nextChan, observer, slice, call, i,
                   notifyCalls, sends, returned, crashed, before,
                   DataLock, held>>

\* (Mutant of ObserveLock: the call also takes the registry's DataLock for
\* writing.)
ObserveLockTakesData(p) ==
    /\ ~crashed
    /\ pc[p] = "o_lock"
    /\ l[p] = FALSE
    /\ ~DataLock.w
    /\ DataLock.r = 0
    /\ DataLock' = [DataLock EXCEPT !.w = TRUE]
    /\ l' = [l EXCEPT ![p] = TRUE]
    /\ observer' = [observer EXCEPT ![p] = MakeChan]
    /\ nextChan' = nextChan + 1
    /\ pc' = [pc EXCEPT ![p] = "o_read"]
    /\ UNCHANGED <<ObserverLock, observers, k, slice, call, i, notifyCalls,
                   sends, returned, crashed, before, held>>

\* Lines 56-59: l.ObserverLock.Lock() on the copy, then make(chan bool).
ObserveLock(p) ==
    /\ ~crashed
    /\ pc[p] = "o_lock"
    /\ l[p] = FALSE
    /\ l' = [l EXCEPT ![p] = TRUE]
    /\ observer' = [observer EXCEPT ![p] = MakeChan]
    /\ nextChan' = nextChan + 1
    /\ pc' = [pc EXCEPT ![p] = "o_read"]
    /\ UNCHANGED <<ObserverLock, observers, k, slice, call, i, notifyCalls,
                   sends, returned, crashed, before,
                   DataLock, held>>

\* Line 60, right side: the map read l.observers[key].
ObserveRead(p) ==
    /\ ~crashed
    /\ pc[p] = "o_read"
    /\ slice' = [slice EXCEPT ![p] = Lookup(observers, String(k[p]))]
    /\ pc' = [pc EXCEPT ![p] = "o_store"]
    /\ UNCHANGED <<ObserverLock, observers, nextChan, k, l, observer, call, i,
                   notifyCalls, sends, returned, crashed, before,
                   DataLock, held>>

\* Line 60, left side: the map assignment of append(slice, observer).
ObserveStore(p) ==
    /\ ~crashed
    /\ pc[p] = "o_store"
    /\ observers' = Assign(observers, String(k[p]), Append(slice[p], observer[p]))
    /\ pc' = [pc EXCEPT ![p] = "o_ret"]
    /\ UNCHANGED <<ObserverLock, nextChan, k, l, observer, slice, call, i,
                   notifyCalls, sends, returned, crashed, before,
                   DataLock, held>>

\* Line 61 and the deferred l.ObserverLock.Unlock() of line 57.
ObserveReturn(p) ==
    /\ ~crashed
    /\ pc[p] = "o_ret"
    /\ returned' = Append(returned, [ch |-> observer[p], key |-> k[p]])
    /\ l' = [l EXCEPT ![p] = FALSE]
    /\ pc' = [pc EXCEPT ![p] = "idle"]
    /\ k' = [k EXCEPT ![p] = NoKey]
    /\ observer' = [observer EXCEPT ![p] = NoChan]
    /\ slice' = [slice EXCEPT ![p] = <<>>]
    /\ UNCHANGED <<ObserverLock, observers, nextChan, call, i, notifyCalls,
                   sends, crashed, before,
                   DataLock, held>>

\* ------------------------------------------------------------------ Notify
\* A thread calls Notify(key) (line 64): the receiver is copied into l.
NotifyCall(p, key) ==
    /\ ~crashed
    /\ pc[p] = "idle"
    /\ NotifyCalls < MaxNotify
    /\ pc' = [pc EXCEPT ![p] = "n_lock"]
    /\ k' = [k EXCEPT ![p] = key]
    /\ l' = [l EXCEPT ![p] = ObserverLock]
    /\ UNCHANGED <<ObserverLock, observers, nextChan, observer, slice, call, i,
                   notifyCalls, sends, returned, crashed, before,
                   DataLock, held>>

\* NotifyCall, with the history of what Observe had returned by then.
NotifyCallH(p, key) ==
    /\ ~crashed
    /\ pc[p] = "idle"
    /\ NotifyCalls < MaxNotify
    /\ pc' = [pc EXCEPT ![p] = "n_lock"]
    /\ k' = [k EXCEPT ![p] = key]
    /\ l' = [l EXCEPT ![p] = ObserverLock]
    /\ before' = [before EXCEPT ![p] = Returned]
    /\ UNCHANGED <<ObserverLock, observers, nextChan, observer, slice, call, i,
                   notifyCalls, sends, returned, crashed, DataLock, held>>

\* Lines 65-66: l.ObserverLock.Lock() on the copy.
NotifyLock(p) ==
    /\ ~crashed
    /\ pc[p] = "n_lock"
    /\ l[p] = FALSE
    /\ l' = [l EXCEPT ![p] = TRUE]
    /\ pc' = [pc EXCEPT ![p] = "n_range"]
    /\ UNCHANGED <<ObserverLock, observers, nextChan, k, observer, slice, call,
                   i, notifyCalls, sends, returned, crashed, before,
                   DataLock, held>>

\* (Mutant of NotifyRange: the read creates the entry it misses.)
NotifyRangeInsert(p) ==
    /\ ~crashed
    /\ pc[p] = "n_range"
    /\ notifyCalls' = Append(notifyCalls,
                             [key |-> k[p],
                              ranged |-> Lookup(observers, String(k[p])),
                              observer |-> NoChan,
                              before |-> before[p]])
    /\ before' = [before EXCEPT ![p] = {}]
    /\ observers' = Assign(observers, String(k[p]),
                           Lookup(observers, String(k[p])))
    /\ call' = [call EXCEPT ![p] = Len(notifyCalls) + 1]
    /\ i' = [i EXCEPT ![p] = 0]
    /\ pc' = [pc EXCEPT ![p] = "n_iter"]
    /\ UNCHANGED <<ObserverLock, nextChan, k, l, observer, slice, sends,
                   returned, crashed, DataLock, held>>

\* Line 67: the range expression l.observers[k.String()] is evaluated once.
NotifyRange(p) ==
    /\ ~crashed
    /\ pc[p] = "n_range"
    /\ notifyCalls' = Append(notifyCalls,
                             [key |-> k[p],
                              ranged |-> Lookup(observers, String(k[p])),
                              observer |-> NoChan,
                              before |-> before[p]])
    /\ before' = [before EXCEPT ![p] = {}]
    /\ call' = [call EXCEPT ![p] = Len(notifyCalls) + 1]
    /\ i' = [i EXCEPT ![p] = 0]
    /\ pc' = [pc EXCEPT ![p] = "n_iter"]
    /\ UNCHANGED <<ObserverLock, observers, nextChan, k, l, observer, slice,
                   sends, returned, crashed, DataLock, held>>

\* Line 67: the loop assigns the next element to `observer`, or ends.
NotifyIter(p) ==
    /\ ~crashed
    /\ pc[p] = "n_iter"
    /\ IF i[p] < Len(notifyCalls[call[p]].ranged)
       THEN /\ i' = [i EXCEPT ![p] = i[p] + 1]
            /\ notifyCalls' = [notifyCalls EXCEPT ![call[p]].observer =
                                   notifyCalls[call[p]].ranged[i[p] + 1]]
            /\ pc' = [pc EXCEPT ![p] = "n_go"]
       ELSE /\ pc' = [pc EXCEPT ![p] = "n_ret"]
            /\ UNCHANGED <<i, notifyCalls>>
    /\ UNCHANGED <<ObserverLock, observers, nextChan, k, l, observer, slice,
                   call, sends, returned, crashed, before,
                   DataLock, held>>

\* (Mutant of NotifyGo: the send is made by the caller itself, inside the
\* locked section, and the loop goes on when it has been received.)
NotifyGoInline(p) ==
    /\ ~crashed
    /\ pc[p] = "n_go"
    /\ LET mine == {g \in sends : g.call = call[p] /\ g.iter = i[p]}
       IN  IF mine = {}
           THEN /\ sends' = sends \cup
                        {[call |-> call[p], iter |-> i[p], st |-> "sending",
                          ch |-> notifyCalls[call[p]].observer]}
                /\ pc' = pc
           ELSE /\ \A g \in mine : g.st = "done"
                /\ sends' = sends
                /\ pc' = [pc EXCEPT ![p] = "n_iter"]
    /\ UNCHANGED <<ObserverLock, observers, nextChan, k, l, observer, slice,
                   call, i, notifyCalls, returned, crashed, before,
                   DataLock, held>>

\* Lines 69-71: the go statement spawns a delivery task whose closure refers
\* to the loop variable of this call.
NotifyGo(p) ==
    /\ ~crashed
    /\ pc[p] = "n_go"
    /\ sends' = sends \cup {[call |-> call[p], iter |-> i[p],
                              st |-> "spawned", ch |-> NoChan]}
    /\ pc' = [pc EXCEPT ![p] = "n_iter"]
    /\ UNCHANGED <<ObserverLock, observers, nextChan, k, l, observer, slice,
                   call, i, notifyCalls, returned, crashed, before,
                   DataLock, held>>

\* Line 73 and the deferred l.ObserverLock.Unlock() of line 66.
NotifyReturn(p) ==
    /\ ~crashed
    /\ pc[p] = "n_ret"
    /\ l' = [l EXCEPT ![p] = FALSE]
    /\ pc' = [pc EXCEPT ![p] = "idle"]
    /\ k' = [k EXCEPT ![p] = NoKey]
    /\ call' = [call EXCEPT ![p] = 0]
    /\ i' = [i EXCEPT ![p] = 0]
    /\ UNCHANGED <<ObserverLock, observers, nextChan, observer, slice,
                   notifyCalls, sends, returned, crashed, before,
                   DataLock, held>>

\* ---------------------------------------------------------- delivery tasks
\* Line 70: the task evaluates `observer` and blocks in the send on that
\* unbuffered channel.
SendEval(g) ==
    /\ ~crashed
    /\ g \in sends
    /\ g.st = "spawned"
    /\ sends' = (sends \ {g}) \cup
                 {[g EXCEPT !.st = "sending",
                            !.ch = notifyCalls[g.call].observer]}
    /\ UNCHANGED <<ObserverLock, observers, nextChan, pc, k, l, observer, slice,
                   call, i, notifyCalls, returned, crashed, before,
                   DataLock, held>>

\* A subscriber's receive on its channel meets the blocked send of task g
\* (line 70 completes).
Receive(g) ==
    /\ ~crashed
    /\ g \in sends
    /\ g.st = "sending"
    /\ g.ch \in Returned
    /\ sends' = (sends \ {g}) \cup {[g EXCEPT !.st = "done"]}
    /\ UNCHANGED <<ObserverLock, observers, nextChan, pc, k, l, observer, slice,
                   call, i, notifyCalls, returned, crashed, before,
                   DataLock, held>>

\* ------------------------------------------------------------ the data race
\* The map accesses of lines 60 and 67 run under per-call copies of the lock.
\* When a map assignment overlaps another access of the map, the runtime may
\* detect it and abort the program ("concurrent map writes", "concurrent map
\* read and map write"); when it does not, the accesses take effect in the
\* order ObserveRead, ObserveStore and NotifyRange take them.
MapRace ==
    \E p, q \in Procs :
        /\ p # q
        /\ pc[p] = "o_store"
        /\ pc[q] \in {"o_read", "o_store", "n_range"}

FatalError ==
    /\ ~crashed
    /\ MapRace
    /\ crashed' = TRUE
    /\ UNCHANGED <<ObserverLock, observers, nextChan, pc, k, l, observer, slice,
                   call, i, notifyCalls, sends, returned, before, DataLock,
                   held>>

\* ----------------------------------------------------------- specification
Step(p) ==
    \/ ObserveLock(p)
    \/ ObserveRead(p)
    \/ ObserveStore(p)
    \/ ObserveReturn(p)
    \/ NotifyLock(p)
    \/ NotifyRange(p)
    \/ NotifyIter(p)
    \/ NotifyGo(p)
    \/ NotifyReturn(p)

Next ==
    \/ \E p \in Procs, key \in Keys : ObserveCall(p, key)
    \/ \E p \in Procs, key \in Keys : NotifyCall(p, key)
    \/ \E p \in Procs : Step(p)
    \/ \E g \in sends : SendEval(g)
    \/ \E g \in sends : Receive(g)
    \/ FatalError

Spec == Init /\ [][Next]_vars

\* The scheduler runs every thread that can take a step, and every delivery
\* task up to its send; nothing obliges callers to call or subscribers to
\* receive.
FairSpec ==
    /\ Spec
    /\ \A p \in Procs : WF_vars(Step(p))
    /\ WF_vars(\E g \in sends : SendEval(g))

\* The same program, with the history of the Notify invocations kept.
NextOrder ==
    \/ \E p \in Procs, key \in Keys : ObserveCall(p, key)
    \/ \E p \in Procs, key \in Keys : NotifyCallH(p, key)
    \/ \E p \in Procs : Step(p)
    \/ \E g \in sends : SendEval(g)
    \/ \E g \in sends : Receive(g)
    \/ FatalError

OrderSpec == Init /\ [][NextOrder]_vars

\* An embedding type's use of the exposed DataLock (line 23) around its calls
\* of Observe and Notify: sync.RWMutex RLock, Lock, and RUnlock / Unlock.
DataRLock(p) ==
    /\ ~crashed
    /\ pc[p] = "idle"
    /\ held[p] = "none"
    /\ ~DataLock.w
    /\ DataLock' = [DataLock EXCEPT !.r = DataLock.r + 1]
    /\ held' = [held EXCEPT ![p] = "r"]
    /\ UNCHANGED <<ObserverLock, observers, nextChan, pc, k, l, observer, slice,
                   call, i, notifyCalls, sends, returned, crashed, before>>

DataWLock(p) ==
    /\ ~crashed
    /\ pc[p] = "idle"
    /\ held[p] = "none"
    /\ ~DataLock.w
    /\ DataLock.r = 0
    /\ DataLock' = [DataLock EXCEPT !.w = TRUE]
    /\ held' = [held EXCEPT ![p] = "w"]
    /\ UNCHANGED <<ObserverLock, observers, nextChan, pc, k, l, observer, slice,
                   call, i, notifyCalls, sends, returned, crashed, before>>

DataUnlock(p) ==
    /\ ~crashed
    /\ pc[p] = "idle"
    /\ held[p] # "none"
    /\ DataLock' = IF held[p] = "w"
                   THEN [DataLock EXCEPT !.w = FALSE]
                   ELSE [DataLock EXCEPT !.r = DataLock.r - 1]
    /\ held' = [held EXCEPT ![p] = "none"]
    /\ UNCHANGED <<ObserverLock, observers, nextChan, pc, k, l, observer, slice,
                   call, i, notifyCalls, sends, returned, crashed, before>>

\* The registry embedded in a type whose callers call Observe and Notify
\* while they hold DataLock, in read or in write mode.
NextEmbedded ==
    \/ \E p \in Procs, key \in Keys : held[p] # "none" /\ ObserveCall(p, key)
    \/ \E p \in Procs, key \in Keys : held[p] # "none" /\ NotifyCall(p, key)
    \/ \E p \in Procs : Step(p)
    \/ \E g \in sends : SendEval(g)
    \/ \E g \in sends : Receive(g)
    \/ FatalError
    \/ \E p \in Procs : DataRLock(p)
    \/ \E p \in Procs : DataWLock(p)
    \/ \E p \in Procs : DataUnlock(p)

EmbeddedSpec == Init /\ [][NextEmbedded]_vars

TypeOK ==
    /\ ObserverLock \in BOOLEAN
    /\ crashed \in BOOLEAN
    /\ nextChan \in 1..(MaxObserve + 1)
    /\ \A p \in Procs : pc[p] \in {"idle"} \cup ObservePcs \cup NotifyPcs
    /\ Len(notifyCalls) <= MaxNotify
    /\ Len(returned) <= MaxObserve

\* ------------------------------------------------------------ observations
Texts == {String(key) : key \in Keys}

Calls == 1..Len(notifyCalls)

\* The delivery tasks of Notify call n, and those of them that have reached
\* their send on channel c (blocked in it, or received).
TasksOf(n) == {g \in sends : g.call = n}
SentOn(n, c) == {g \in TasksOf(n) : g.st # "spawned" /\ g.ch = c}
PendingOn(c) == {g \in sends : g.st = "sending" /\ g.ch = c}
ReceivedOn(c) == {g \in sends : g.st = "done" /\ g.ch = c}

\* Notify call n has left its loop, and every task it spawned has evaluated
\* its channel.
LoopDone(n) == \A p \in Procs : call[p] = n => pc[p] = "n_ret"
Settled(n) == LoopDone(n) /\ \A g \in TasksOf(n) : g.st # "spawned"

\* The channels Notify call n ranged over.
RangedOver(n) ==
    {notifyCalls[n].ranged[x] : x \in 1..Len(notifyCalls[n].ranged)}

\* The thread is between Lock and Unlock of its call.
InLocked(p) ==
    pc[p] \in {"o_read", "o_store", "o_ret", "n_range", "n_iter", "n_go", "n_ret"}

\* The rendered key text channel c was asked for, by a returned or a running
\* Observe call.
TextOf(c) ==
    IF c \in Returned
    THEN String(returned[CHOOSE n \in 1..Len(returned) : returned[n].ch = c].key)
    ELSE String(k[CHOOSE p \in Procs : observer[p] = c])

\* No Observe call has been made for key text t.
NeverObserved(t) ==
    /\ \A n \in 1..Len(returned) : String(returned[n].key) # t
    /\ \A p \in Procs : pc[p] \in ObservePcs => String(k[p]) # t

\* ------------------------------------------------------------------ claims

\* C1: fan-out delivery.  When the K Observe calls on a key have returned
\* and every delivery task of a Notify call on it has been received (every
\* channel has an active reader), each of the K channels has received
\* exactly one true from that call.
FanOutDelivery ==
    \A n \in Calls :
        (/\ LoopDone(n)
         /\ RangedOver(n) \subseteq Returned
         /\ \A p \in Procs : pc[p] \notin ObservePcs
         /\ \A g \in TasksOf(n) : g.st = "done")
            => \A c \in RangedOver(n) :
                   Cardinality({g \in TasksOf(n) : g.ch = c}) = 1

\* C2: mutual exclusion on the observer mapping.  No two calls are inside
\* their locked section at the same time.
MutualExclusion ==
    \A p, q \in Procs : p # q => ~(InLocked(p) /\ InLocked(q))

\* C3: no lost subscriptions.  Every channel an Observe call has returned is
\* in the sequence of its key text exactly once, and when no Observe call is
\* running the sequence of each key text holds as many channels as Observe
\* calls for that text have returned.
NoLostSubscriptions ==
    /\ \A n \in 1..Len(returned) :
           LET s == Lookup(observers, String(returned[n].key))
           IN  Cardinality({x \in 1..Len(s) : s[x] = returned[n].ch}) = 1
    /\ (\A p \in Procs : pc[p] \notin ObservePcs)
           => \A t \in Texts :
                  Len(Lookup(observers, t)) =
                      Cardinality({n \in 1..Len(returned) :
                                       String(returned[n].key) = t})

\* C4: key isolation.  Every value sent to or pending on a channel comes from
\* a Notify call on the key text the channel was registered for.
KeyIsolation ==
    \A g \in sends :
        g.st # "spawned"
            => /\ g.ch # NoChan
               /\ TextOf(g.ch) = String(notifyCalls[g.call].key)

\* C4 witness: a Notify call on one key text has delivered to a channel of
\* that text while a channel returned for another text has nothing sent to
\* it or pending on it.
KeyIsolationWitness ==
    \E g \in sends, n \in 1..Len(returned) :
        /\ g.st = "done"
        /\ String(returned[n].key) # String(notifyCalls[g.call].key)
        /\ PendingOn(returned[n].ch) = {}
        /\ ReceivedOn(returned[n].ch) = {}

\* C5: at most once per Notify.  No channel has two sends from the same
\* Notify call, and the values sent to or pending on a channel are no more
\* than the Notify calls on its key that read the mapping after it was
\* registered.
AtMostOncePerNotify ==
    /\ \A n \in Calls : \A c \in 1..(nextChan - 1) :
           Cardinality(SentOn(n, c)) <= 1
    /\ \A c \in 1..(nextChan - 1) :
           Cardinality(PendingOn(c) \cup ReceivedOn(c))
               <= Cardinality({n \in Calls : c \in RangedOver(n)})

\* C6: uniqueness.  The channels Observe calls have returned are pairwise
\* distinct.
Uniqueness ==
    \A a, b \in 1..Len(returned) : a # b => returned[a].ch # returned[b].ch

\* C6 witness: two Observe calls that raced on the same key text (one of the
\* two registrations was overwritten) have both returned.
UniquenessWitness ==
    /\ Len(returned) >= 2
    /\ String(returned[1].key) = String(returned[2].key)
    /\ Len(Lookup(observers, String(returned[1].key))) = 1

\* C7: Notify never waits for subscribers.  Under fair scheduling every
\* Notify call returns, whatever the subscribers do.
NotifyReturns ==
    \A p \in Procs : (pc[p] \in NotifyPcs) ~> (pc[p] = "idle")

NeverDropMayLeak ==
    (\A n \in Calls : Settled(n))
        => \A c \in Returned :
               Cardinality(PendingOn(c)) + Cardinality(ReceivedOn(c))
                   = Cardinality({n \in Calls : c \in RangedOver(n)})

\* C10: key identity is the rendered text.  A Notify call made with a key
\* that differs from the key of an Observe call but renders to the same text
\* ranges over the sequence holding that call's channel, and signals it.
KeyIdentity ==
    \A n \in Calls : \A r \in 1..Len(returned) :
        (/\ Settled(n)
         /\ returned[r].key # notifyCalls[n].key
         /\ String(returned[r].key) = String(notifyCalls[n].key)
         /\ returned[r].ch \in RangedOver(n))
            => SentOn(n, returned[r].ch) # {}

\* s is a prefix of t.
IsPrefix(s, t) == Len(s) <= Len(t) /\ \A x \in 1..Len(s) : s[x] = t[x]

\* C12: blocked deliveries never hold the lock.  The registry's lock and the
\* calls' copies of it are held by callers inside their locked section only,
\* never by a delivery task; a caller inside its locked section can always
\* take its next step, whatever sends are pending; and a caller that cannot
\* acquire the lock waits for a caller inside its locked section.  So no
\* deadlock is reachable.
BlockedDeliveriesHoldNoLock ==
    /\ ObserverLock = FALSE
    /\ \A p \in Procs : l[p] => InLocked(p)
    /\ \A p \in Procs : (InLocked(p) /\ ~crashed) => ENABLED Step(p)
    /\ \A p \in Procs :
           (pc[p] \in {"o_lock", "n_lock"} /\ ~crashed /\ ~ENABLED Step(p))
               => \E q \in Procs : q # p /\ InLocked(q)

\* C12 witness: a delivery task is blocked in its send, the Notify call that
\* spawned it has returned, and a later Notify call that read the mapping
\* with the task's channel in it has returned too.
BlockedDeliveriesWitness ==
    \E g \in sends : \E n \in Calls :
        /\ g.st = "sending"
        /\ n > g.call
        /\ g.ch \in RangedOver(n)
        /\ \A p \in Procs : pc[p] = "idle"

\* C13: Observe always returns.  Under fair scheduling every Observe call
\* returns, whatever the subscribers and the delivery tasks do.
ObserveReturns ==
    \A p \in Procs : (pc[p] \in ObservePcs) ~> (pc[p] = "idle")

\* C14: Observe's effect is a single append.  The map assignment of Observe
\* puts the new channel at the end of the sequence the mapping holds for the
\* key text, keeps the entries of that sequence, and leaves the sequences of
\* the other key texts as they are.
SingleAppend ==
    [][\A p \in Procs :
           ObserveStore(p) =>
               observers' = Assign(observers, String(k[p]),
                                   Append(Lookup(observers, String(k[p])),
                                          observer[p]))]_vars

\* C15: registrations are permanent.  In every step the sequence of each key
\* text is a prefix of what it is after the step.
RegistrationsPermanent ==
    [][\A t \in DOMAIN observers :
           /\ t \in DOMAIN observers'
           /\ IsPrefix(observers[t], observers'[t])]_vars

\* C11: ordering of Observe against Notify.  A channel whose Observe call had
\* returned when a Notify call on the same key text was invoked is among the
\* channels that call signals; and a Notify call signals only channels that
\* were in the mapping when it read it, so never the channel of an Observe
\* call that started after it returned.
ObserveNotifyOrdering ==
    \A n \in Calls :
        /\ Settled(n) =>
               \A r \in 1..Len(returned) :
                   (/\ returned[r].ch \in notifyCalls[n].before
                    /\ String(returned[r].key) = String(notifyCalls[n].key))
                       => SentOn(n, returned[r].ch) # {}
        /\ \A g \in TasksOf(n) : g.st # "spawned" => g.ch \in RangedOver(n)

\* C16: the data read/write lock is untouched.  While embedding callers hold
\* DataLock in read or write mode, a running Observe or Notify call can
\* always take its next step, and no step of Observe or Notify changes
\* DataLock or what the callers hold of it.
DataLockUntouched ==
    /\ [](\A p \in Procs :
              (pc[p] # "idle" /\ ~crashed /\ (DataLock.w \/ DataLock.r > 0))
                  => ENABLED Step(p))
    /\ [][((\E p \in Procs : Step(p))
           \/ (\E p \in Procs, key \in Keys :
                   ObserveCall(p, key) \/ NotifyCall(p, key)))
              => UNCHANGED <<DataLock, held>>]_vars

\* C16 witness: a Notify call made by a caller that holds DataLock for
\* writing has spawned its delivery tasks and is about to return.
DataLockWitness ==
    \E p \in Procs :
        /\ held[p] = "w"
        /\ DataLock.w
        /\ pc[p] = "n_ret"
        /\ TasksOf(call[p]) # {}

====
